---- MODULE Spec2Model ----
(***************************************************************************)
(* Page-replacement simulator: the four engines (RandMMU, LruMMU,          *)
(* ClockMMU, OptimalMMU) and the access loop of the driver (runoptimal.py). *)
(* One driver run per replacement mode is carried on the same trace and    *)
(* the same frame count, so that the engines can be compared.              *)
(***************************************************************************)
EXTENDS Integers, Sequences, FiniteSets, TLC

\* ------------------------------------------------------------------ bounds
MaxPage == 3
MaxLen == 3
MaxFrames == 2

PageNumbers == 1..MaxPage
TraceModes == {"R", "W"}
ReplacementModes == <<"rand", "lru", "clock", "optimal">>

\* ------------------------------------------------------- inputs of a run
TraceLine(page_number, mode) == <<page_number, mode>>

RECURSIVE TracesUpTo(_)
TracesUpTo(n) ==
    IF n = 0 THEN {<<>>}
    ELSE LET shorter == TracesUpTo(n - 1)
         IN shorter \cup
            {Append(t, TraceLine(p, w)) : t \in {s \in shorter : Len(s) = n - 1},
                                          p \in PageNumbers, w \in TraceModes}

\* Scenario A of the test plan: frames=2, all reads, pages [1,2,3,1].
ScenarioA == [frames |-> 2,
              trace |-> <<TraceLine(1, "R"), TraceLine(2, "R"),
                          TraceLine(3, "R"), TraceLine(1, "R")>>]
\* Scenario B: frames=1, pages [5,5,6], modes [R,W,R].
ScenarioB == [frames |-> 1,
              trace |-> <<TraceLine(5, "R"), TraceLine(5, "W"), TraceLine(6, "R")>>]
\* Scenario C: frames=3, pages [1,2,3], then [1] again, then [4], all reads.
ScenarioC == [frames |-> 3,
              trace |-> <<TraceLine(1, "R"), TraceLine(2, "R"), TraceLine(3, "R"),
                          TraceLine(1, "R"), TraceLine(4, "R")>>]

Inputs ==
    {[frames |-> f, trace |-> t] : f \in 1..MaxFrames, t \in TracesUpTo(MaxLen) \ {<<>>}}
        \cup {ScenarioA, ScenarioB, ScenarioC}

\* ------------------------------------------------ Python containers used
\* dict: a function whose domain is the set of keys.
EmptyDict == [k \in {} |-> FALSE]
DictSet(d, k, v) == [x \in (DOMAIN d) \cup {k} |-> IF x = k THEN v ELSE d[x]]
DictDel(d, k) == [x \in (DOMAIN d) \ {k} |-> d[x]]

\* list.remove(x): drops the first occurrence of x.
RECURSIVE ListRemove(_, _)
ListRemove(s, x) ==
    IF s = <<>> THEN <<>>
    ELSE IF Head(s) = x THEN Tail(s)
    ELSE <<Head(s)>> \o ListRemove(Tail(s), x)

ListElems(s) == {s[j] : j \in 1..Len(s)}

\* OrderedDict: a sequence of <<key, value>> in insertion order.
OdKeys(od) == {od[j][1] : j \in 1..Len(od)}
OdGet(od, k) == LET j == CHOOSE n \in 1..Len(od) : od[n][1] = k IN od[j][2]
OdSetItem(od, k, v) ==
    IF k \in OdKeys(od)
    THEN [j \in 1..Len(od) |-> IF od[j][1] = k THEN <<k, v>> ELSE od[j]]
    ELSE Append(od, <<k, v>>)
OdMoveToEnd(od, k) ==
    LET v == OdGet(od, k)
        rest == SelectSeq(od, LAMBDA e : e[1] # k)
    IN Append(rest, <<k, v>>)

\* Page record (page.py): the dirty flag and the use (reference) bit.
Page(dirty, use_bit) == [dirty |-> dirty, use_bit |-> use_bit]

\* ------------------------------------------------------------ LruMMU
LruInit(frames_) ==
    [frames |-> frames_, total_disk_read |-> 0, total_disk_write |-> 0,
     total_page_fault |-> 0, loaded_pages |-> <<>>, current_size |-> 0,
     debug |-> FALSE, error |-> ""]

\* A fault is counted as one page fault and one disk read (lines 30-31).
LruCountFaultNoRead(m) ==
    [m EXCEPT !.total_page_fault = @ + 1]
LruCountFaultReadsTwice(m) ==
    [m EXCEPT !.total_page_fault = @ + 1, !.total_disk_read = @ + 2]
LruCountFault(m) ==
    [m EXCEPT !.total_page_fault = @ + 1, !.total_disk_read = @ + 1]

\* popitem(last=False) and the write-back of the victim (lines 33-36).
LruEvictAlwaysWrites(m) ==
    [m EXCEPT !.loaded_pages = Tail(@),
              !.total_disk_write = @ + 1,
              !.current_size = @ - 1]
LruEvictMostRecent(m) ==
    LET dirty == m.loaded_pages[Len(m.loaded_pages)][2]
    IN [m EXCEPT !.loaded_pages = SubSeq(@, 1, Len(@) - 1),
                 !.total_disk_write = IF dirty THEN @ + 1 ELSE @,
                 !.current_size = @ - 1]
LruEvictKeepsSize(m) ==
    LET dirty == Head(m.loaded_pages)[2]
    IN [m EXCEPT !.loaded_pages = Tail(@),
                 !.total_disk_write = IF dirty THEN @ + 1 ELSE @]
LruEvictWritesOnlyInDebug(m) ==
    LET dirty == Head(m.loaded_pages)[2]
    IN [m EXCEPT !.loaded_pages = Tail(@),
                 !.total_disk_write = IF dirty /\ m.debug THEN @ + 1 ELSE @,
                 !.current_size = @ - 1]
LruEvict(m) ==
    LET dirty == Head(m.loaded_pages)[2]
    IN [m EXCEPT !.loaded_pages = Tail(@),
                 !.total_disk_write = IF dirty THEN @ + 1 ELSE @,
                 !.current_size = @ - 1]

LruAccessHitStoresMode(m, page_number, is_write) ==
    IF page_number \in OdKeys(m.loaded_pages)
    THEN LET marked == OdSetItem(m.loaded_pages, page_number, is_write)
         IN [m EXCEPT !.loaded_pages = OdMoveToEnd(marked, page_number)]
    ELSE LET m1 == LruCountFault(m)
             m2 == IF m1.current_size = m1.frames THEN LruEvict(m1) ELSE m1
         IN [m2 EXCEPT !.loaded_pages =
                           OdMoveToEnd(OdSetItem(@, page_number, is_write), page_number),
                       !.current_size = @ + 1]
LruAccessHitKeepsPlace(m, page_number, is_write) ==
    IF page_number \in OdKeys(m.loaded_pages)
    THEN [m EXCEPT !.loaded_pages = IF is_write THEN OdSetItem(@, page_number, TRUE)
                                    ELSE @]
    ELSE LET m1 == LruCountFault(m)
             m2 == IF m1.current_size = m1.frames THEN LruEvict(m1) ELSE m1
         IN [m2 EXCEPT !.loaded_pages =
                           OdMoveToEnd(OdSetItem(@, page_number, is_write), page_number),
                       !.current_size = @ + 1]
LruAccess(m, page_number, is_write) ==
    IF page_number \in OdKeys(m.loaded_pages)
    THEN LET marked == IF is_write THEN OdSetItem(m.loaded_pages, page_number, TRUE)
                       ELSE m.loaded_pages
         IN [m EXCEPT !.loaded_pages = OdMoveToEnd(marked, page_number)]
    ELSE LET m1 == LruCountFault(m)
             m2 == IF m1.current_size = m1.frames THEN LruEvict(m1) ELSE m1
         IN [m2 EXCEPT !.loaded_pages =
                           OdMoveToEnd(OdSetItem(@, page_number, is_write), page_number),
                       !.current_size = @ + 1]

\* ------------------------------------------------------------ RandMMU
RandInit(frames_) ==
    [frames |-> frames_, total_disk_read |-> 0, total_disk_write |-> 0,
     total_page_fault |-> 0, page_table |-> EmptyDict, loaded_pages |-> <<>>,
     error |-> ""]

\* The capacity test of a fault (line 46).
RandNeedsEvictionEarly(m) == Len(m.loaded_pages) + 1 >= m.frames
RandNeedsEvictionOffByOne(m) == Len(m.loaded_pages) > m.frames
RandNeedsEviction(m) == Len(m.loaded_pages) >= m.frames

\* random.choice(self.loaded_pages): any element of the list may come out.
RandomChoicesOldestOnly(m) ==
    IF RandNeedsEviction(m) THEN {Head(m.loaded_pages)} ELSE {0}
RandomChoices(m) ==
    IF RandNeedsEviction(m) THEN ListElems(m.loaded_pages) ELSE {0}

\* A page hit (lines 31-37).
RandHitWritesBack(m, page_number, is_write) ==
    IF is_write
    THEN [m EXCEPT !.page_table[page_number].dirty = TRUE,
                   !.total_disk_write = @ + 1]
    ELSE m
RandHit(m, page_number, is_write) ==
    IF is_write
    THEN [m EXCEPT !.page_table[page_number].dirty = TRUE]
    ELSE m

RandAccessKeepsRecord(m, page_number, is_write, evict_page_num) ==
    IF page_number \in DOMAIN m.page_table
    THEN RandHit(m, page_number, is_write)
    ELSE LET m1 == [m EXCEPT !.total_page_fault = @ + 1, !.total_disk_read = @ + 1]
             m2 == IF RandNeedsEviction(m1)
                   THEN [m1 EXCEPT
                           !.total_disk_write =
                               IF m1.page_table[evict_page_num].dirty THEN @ + 1 ELSE @,
                           !.loaded_pages = ListRemove(@, evict_page_num)]
                   ELSE m1
         IN [m2 EXCEPT !.page_table = DictSet(@, page_number, Page(is_write, FALSE)),
                       !.loaded_pages = Append(@, page_number)]
RandAccess(m, page_number, is_write, evict_page_num) ==
    IF page_number \in DOMAIN m.page_table
    THEN RandHit(m, page_number, is_write)
    ELSE LET m1 == [m EXCEPT !.total_page_fault = @ + 1, !.total_disk_read = @ + 1]
             m2 == IF RandNeedsEviction(m1)
                   THEN [m1 EXCEPT
                           !.total_disk_write =
                               IF m1.page_table[evict_page_num].dirty THEN @ + 1 ELSE @,
                           !.loaded_pages = ListRemove(@, evict_page_num),
                           !.page_table = DictDel(@, evict_page_num)]
                   ELSE m1
         IN [m2 EXCEPT !.page_table = DictSet(@, page_number, Page(is_write, FALSE)),
                       !.loaded_pages = Append(@, page_number)]

\* ------------------------------------------------------------ ClockMMU
\* A slot of self.loaded_pages holds what the code stored there: the Page
\* object appended while the list grows (line 47), or the page number written
\* by a replacement (line 66).  None is what an empty placeholder would be.
SlotObject(page_number) == [kind |-> "object", page_number |-> page_number]
SlotNumber(page_number) == [kind |-> "number", page_number |-> page_number]
SlotNone == [kind |-> "none", page_number |-> 0]

\* Is the value held by a slot a key of page_table?  page_table is keyed by
\* page numbers; a Page object hashes and compares by identity (page.py
\* defines no __eq__/__hash__), so it is never equal to a page number.
IsKey(slot, page_table) ==
    slot.kind = "number" /\ slot.page_number \in DOMAIN page_table

ClockInit(frames_) ==
    [frames |-> frames_, total_disk_read |-> 0, total_disk_write |-> 0,
     total_page_fault |-> 0, page_table |-> EmptyDict, loaded_pages |-> <<>>,
     clock_hand |-> 0, error |-> ""]

\* The while True loop of access_memory (lines 50-80).
RECURSIVE ClockScan(_, _, _)
ClockScan(m, page_number, is_write) ==
    LET evict_page_num == m.loaded_pages[m.clock_hand + 1]
    IN IF evict_page_num.kind = "none" THEN m
       ELSE IF ~IsKey(evict_page_num, m.page_table)
       THEN [m EXCEPT !.error = "KeyError"]
       ELSE LET n == evict_page_num.page_number
                evict_page == m.page_table[n]
            IN IF evict_page.use_bit = FALSE
               THEN [m EXCEPT
                       !.total_disk_write = IF evict_page.dirty THEN @ + 1 ELSE @,
                       !.page_table = DictSet(DictDel(@, n), page_number,
                                              Page(is_write, TRUE)),
                       !.loaded_pages[m.clock_hand + 1] = SlotNumber(page_number),
                       !.clock_hand = (m.clock_hand + 1) % m.frames]
               ELSE ClockScan([m EXCEPT !.page_table[n].use_bit = FALSE,
                                        !.clock_hand = (m.clock_hand + 1) % m.frames],
                              page_number, is_write)

\* The number of slots the while True loop examines, started on engine m.
RECURSIVE ClockScanLength(_)
ClockScanLength(m) ==
    LET evict_page_num == m.loaded_pages[m.clock_hand + 1]
    IN IF evict_page_num.kind = "none" THEN 1
       ELSE IF ~IsKey(evict_page_num, m.page_table) THEN 1
       ELSE LET n == evict_page_num.page_number
            IN IF m.page_table[n].use_bit = FALSE THEN 1
               ELSE 1 + ClockScanLength([m EXCEPT
                                           !.page_table[n].use_bit = FALSE,
                                           !.clock_hand = (m.clock_hand + 1) % m.frames])

ClockAccessFillAdvancesHand(m, page_number, is_write) ==
    IF page_number \in DOMAIN m.page_table
    THEN [m EXCEPT !.page_table[page_number].use_bit = TRUE,
                   !.page_table[page_number].dirty = IF is_write THEN TRUE ELSE @]
    ELSE LET m1 == [m EXCEPT !.total_disk_read = @ + 1, !.total_page_fault = @ + 1]
         IN IF Len(m1.loaded_pages) < m1.frames
            THEN [m1 EXCEPT !.loaded_pages = Append(@, SlotObject(page_number)),
                            !.page_table = DictSet(@, page_number, Page(is_write, TRUE)),
                            !.clock_hand = @ + 1]
            ELSE ClockScan(m1, page_number, is_write)
ClockAccessHitMovesHand(m, page_number, is_write) ==
    IF page_number \in DOMAIN m.page_table
    THEN [m EXCEPT !.page_table[page_number].use_bit = TRUE,
                   !.page_table[page_number].dirty = IF is_write THEN TRUE ELSE @,
                   !.clock_hand = (@ + 1) % m.frames]
    ELSE LET m1 == [m EXCEPT !.total_disk_read = @ + 1, !.total_page_fault = @ + 1]
         IN IF Len(m1.loaded_pages) < m1.frames
            THEN [m1 EXCEPT !.loaded_pages = Append(@, SlotObject(page_number)),
                            !.page_table = DictSet(@, page_number, Page(is_write, TRUE))]
            ELSE ClockScan(m1, page_number, is_write)
ClockAccessLoadsUnreferenced(m, page_number, is_write) ==
    IF page_number \in DOMAIN m.page_table
    THEN [m EXCEPT !.page_table[page_number].use_bit = TRUE,
                   !.page_table[page_number].dirty = IF is_write THEN TRUE ELSE @]
    ELSE LET m1 == [m EXCEPT !.total_disk_read = @ + 1, !.total_page_fault = @ + 1]
         IN IF Len(m1.loaded_pages) < m1.frames
            THEN [m1 EXCEPT !.loaded_pages = Append(@, SlotObject(page_number)),
                            !.page_table = DictSet(@, page_number, Page(is_write, FALSE))]
            ELSE ClockScan(m1, page_number, is_write)
ClockAccess(m, page_number, is_write) ==
    IF page_number \in DOMAIN m.page_table
    THEN [m EXCEPT !.page_table[page_number].use_bit = TRUE,
                   !.page_table[page_number].dirty = IF is_write THEN TRUE ELSE @]
    ELSE LET m1 == [m EXCEPT !.total_disk_read = @ + 1, !.total_page_fault = @ + 1]
         IN IF Len(m1.loaded_pages) < m1.frames
            THEN [m1 EXCEPT !.loaded_pages = Append(@, SlotObject(page_number)),
                            !.page_table = DictSet(@, page_number, Page(is_write, TRUE))]
            ELSE ClockScan(m1, page_number, is_write)

\* ---------------------------------------------------------- OptimalMMU
OptimalInit(frames_) ==
    [frames |-> frames_, total_disk_read |-> 0, total_disk_write |-> 0,
     total_page_fault |-> 0, page_table |-> EmptyDict, memory |-> <<>>,
     error |-> ""]

\* future_access[page_num].pop(0) on the collections.deque the driver built:
\* deque.pop() takes no argument, so the call raises TypeError and removes
\* nothing.
DequePop(q, index) == [error |-> "TypeError", q |-> q]

\* while future_access[page_num] and future_access[page_num][0] <= current_index
RECURSIVE CleanUpPast(_, _)
CleanUpPast(q, current_index) ==
    IF q # <<>> /\ Head(q) <= current_index
    THEN LET r == DequePop(q, 0)
         IN IF r.error # "" THEN r ELSE CleanUpPast(r.q, current_index)
    ELSE [error |-> "", q |-> q]

\* next_use_index and farthest_index: a trace position or float('inf').
Position(n) == [inf |-> FALSE, at |-> n]
Infinite == [inf |-> TRUE, at |-> 0]
Greater(a, b) == IF a.inf THEN ~b.inf ELSE (~b.inf /\ a.at > b.at)

\* The for page_num in self.memory loop of evict_page (lines 51-64);
\* page_to_evict is <<>> for None.
RECURSIVE FindFarthest(_, _, _, _, _)
FindFarthest(pages, current_index, fa, farthest_index, page_to_evict) ==
    IF pages = <<>>
    THEN [error |-> "", future_access |-> fa, page_to_evict |-> page_to_evict]
    ELSE LET page_num == Head(pages)
             cleaned == CleanUpPast(fa[page_num], current_index)
             fa1 == [fa EXCEPT ![page_num] = cleaned.q]
             next_use_index == IF cleaned.q # <<>> THEN Position(Head(cleaned.q))
                               ELSE Infinite
         IN IF cleaned.error # ""
            THEN [error |-> cleaned.error, future_access |-> fa1,
                  page_to_evict |-> page_to_evict]
            ELSE IF Greater(next_use_index, farthest_index)
            THEN FindFarthest(Tail(pages), current_index, fa1, next_use_index,
                              <<page_num>>)
            ELSE FindFarthest(Tail(pages), current_index, fa1, farthest_index,
                              page_to_evict)

\* evict_page: the result is the engine and the Future-Access Index it leaves.
EvictPage(m, current_index, fa) ==
    IF Len(m.memory) < m.frames
    THEN [mmu |-> m, future_access |-> fa]
    ELSE LET found == FindFarthest(m.memory, current_index, fa, Position(-1), <<>>)
         IN IF found.error # ""
            THEN [mmu |-> [m EXCEPT !.error = found.error],
                  future_access |-> found.future_access]
            ELSE IF found.page_to_evict = <<>>
            THEN [mmu |-> [m EXCEPT !.error = "KeyError"],
                  future_access |-> found.future_access]
            ELSE LET page_to_evict == found.page_to_evict[1]
                     evicted_page == m.page_table[page_to_evict]
                 IN [mmu |-> [m EXCEPT
                                !.total_disk_write =
                                    IF evicted_page.dirty THEN @ + 1 ELSE @,
                                !.page_table = DictDel(@, page_to_evict),
                                !.memory = ListRemove(@, page_to_evict)],
                     future_access |-> found.future_access]

OptimalAccess(m, page_number, current_index, fa, is_write) ==
    IF page_number \in DOMAIN m.page_table
    THEN [mmu |-> IF is_write THEN [m EXCEPT !.page_table[page_number].dirty = TRUE]
                  ELSE m,
          future_access |-> fa]
    ELSE LET m1 == [m EXCEPT !.total_disk_read = @ + 1, !.total_page_fault = @ + 1]
             ev == EvictPage(m1, current_index, fa)
         IN IF ev.mmu.error # ""
            THEN ev
            ELSE [mmu |-> [ev.mmu EXCEPT
                             !.page_table = DictSet(@, page_number, Page(is_write, FALSE)),
                             !.memory = Append(@, page_number)],
                  future_access |-> ev.future_access]

\* ------------------------------------------------------------- driver
\* runoptimal.py lines 81-85: page -> ascending 0-based positions of the page.
BuildFutureAccessFirstOnly(trace) ==
    [p \in {trace[j][1] : j \in 1..Len(trace)} |->
        LET first == CHOOSE j \in 1..Len(trace) :
                        /\ trace[j][1] = p
                        /\ \A k \in 1..(j - 1) : trace[k][1] # p
        IN <<first - 1>>]
BuildFutureAccess(trace) ==
    [p \in {trace[j][1] : j \in 1..Len(trace)} |->
        LET RECURSIVE Positions(_)
            Positions(j) ==
                IF j > Len(trace) THEN <<>>
                ELSE IF trace[j][1] = p THEN <<j - 1>> \o Positions(j + 1)
                ELSE Positions(j + 1)
        IN Positions(1)]

VARIABLES frames, trace_list, future_access, no_events,
          randmmu, lrummu, clockmmu, optimalmmu

\* One run of a driver script (runoptimal.py or simulator.py): its arguments,
\* the lines of the trace file, its position, the logging level set by
\* set_debug/reset_debug, what it printed, the exception that ended it, and
\* the read_memory/write_memory calls it made.
VARIABLES script, replacement_mode, debug_mode, trace_contents, pc,
          log_level, stdout, exception, calls

dvars == <<script, replacement_mode, debug_mode, trace_contents, pc,
           log_level, stdout, exception, calls>>

vars == <<frames, trace_list, future_access, no_events,
          randmmu, lrummu, clockmmu, optimalmmu, dvars>>

Mmu(mode) ==
    CASE mode = "rand" -> randmmu
      [] mode = "lru" -> lrummu
      [] mode = "clock" -> clockmmu
      [] mode = "optimal" -> optimalmmu

AllModes == {ReplacementModes[j] : j \in 1..Len(ReplacementModes)}

\* A run is over when its loop has consumed the trace or an exception left it.
Aborted(mode) == Mmu(mode).error # ""
Finished(mode) == ~Aborted(mode) /\ no_events[mode] = Len(trace_list)
Running(mode) == ~Aborted(mode) /\ no_events[mode] < Len(trace_list)

\* The four runs are stepped in turn, line by line.
RunOrder == <<"optimal", "lru", "rand", "clock">>
ModeRank(mode) == CHOOSE j \in 1..Len(RunOrder) : RunOrder[j] = mode
Turn(mode) ==
    /\ Running(mode)
    /\ \A other \in AllModes \ {mode} :
          Running(other) =>
             \/ no_events[other] > no_events[mode]
             \/ no_events[other] = no_events[mode] /\ ModeRank(other) > ModeRank(mode)

CurPage(mode) == trace_list[no_events[mode] + 1][1]
CurMode(mode) == trace_list[no_events[mode] + 1][2]

\* The engines are driven directly: no driver script is running.
NoDriver ==
    /\ script = "" /\ replacement_mode = "" /\ debug_mode = ""
    /\ trace_contents = <<>> /\ pc = "" /\ log_level = "WARNING"
    /\ stdout = <<>> /\ exception = "" /\ calls = <<>>

Init ==
    /\ \E input \in Inputs :
          /\ frames = input.frames
          /\ trace_list = input.trace
    /\ future_access = BuildFutureAccess(trace_list)
    /\ no_events = [mode \in AllModes |-> 0]
    /\ randmmu = RandInit(frames)
    /\ lrummu = LruInit(frames)
    /\ clockmmu = ClockInit(frames)
    /\ optimalmmu = OptimalInit(frames)
    /\ NoDriver

Advance(mode, m) ==
    no_events' = IF m.error = "" THEN [no_events EXCEPT ![mode] = @ + 1] ELSE no_events

RandStep ==
    /\ Turn("rand")
    /\ \E evict_page_num \in RandomChoices(randmmu) :
          randmmu' = RandAccess(randmmu, CurPage("rand"), CurMode("rand") = "W",
                                evict_page_num)
    /\ Advance("rand", randmmu')
    /\ UNCHANGED <<frames, trace_list, future_access, lrummu, clockmmu, optimalmmu, dvars>>

LruStep ==
    /\ Turn("lru")
    /\ lrummu' = LruAccess(lrummu, CurPage("lru"), CurMode("lru") = "W")
    /\ Advance("lru", lrummu')
    /\ UNCHANGED <<frames, trace_list, future_access, randmmu, clockmmu, optimalmmu, dvars>>

ClockStep ==
    /\ Turn("clock")
    /\ clockmmu' = ClockAccess(clockmmu, CurPage("clock"), CurMode("clock") = "W")
    /\ Advance("clock", clockmmu')
    /\ UNCHANGED <<frames, trace_list, future_access, randmmu, lrummu, optimalmmu, dvars>>

OptimalStep ==
    /\ Turn("optimal")
    /\ LET r == OptimalAccess(optimalmmu, CurPage("optimal"), no_events["optimal"],
                              future_access, CurMode("optimal") = "W")
       IN /\ optimalmmu' = r.mmu
          /\ future_access' = r.future_access
    /\ Advance("optimal", optimalmmu')
    /\ UNCHANGED <<frames, trace_list, randmmu, lrummu, clockmmu, dvars>>

Next == RandStep \/ LruStep \/ ClockStep \/ OptimalStep

Spec == Init /\ [][Next]_vars

\* ------------------------------------------------ one run of a script
DriverMaxPage == 2
DriverMaxLen == 2

PAGE_OFFSET == 12
PageSize == 2 ^ PAGE_OFFSET

Scripts == {"runoptimal.py", "simulator.py"}
\* The replacement modes a script constructs an engine for.
AcceptedModes(script_) ==
    IF script_ = "runoptimal.py" THEN {"rand", "lru", "clock", "optimal"}
    ELSE {"rand", "lru", "clock"}
ModeTokens == AllModes \cup {"esc"}
DebugTokens == {"debug", "quiet", "verbose"}
LineModeTokens == {"R", "W", "X"}

\* The addresses of a trace file: the last byte of each page.
Addresses == {p * PageSize + (PageSize - 1) : p \in 1..DriverMaxPage}

RECURSIVE FilesUpTo(_)
FilesUpTo(n) ==
    IF n = 0 THEN {<<>>}
    ELSE LET shorter == FilesUpTo(n - 1)
         IN shorter \cup
            {Append(t, <<a, w>>) : t \in {f \in shorter : Len(f) = n - 1},
                                   a \in Addresses, w \in LineModeTokens}

\* logical_address >> PAGE_OFFSET
PageNumberOf(logical_address) == logical_address \div PageSize

\* The first loop of runoptimal.py (lines 73-77).
ParseTrace(contents) ==
    [j \in 1..Len(contents) |-> <<PageNumberOf(contents[j][1]), contents[j][2]>>]

NotConstructed == [error |-> ""]

Construct(mode, frames_) ==
    CASE mode = "rand" -> RandInit(frames_)
      [] mode = "lru" -> LruInit(frames_)
      [] mode = "clock" -> ClockInit(frames_)
      [] mode = "optimal" -> OptimalInit(frames_)

\* set_debug / reset_debug: LruMMU keeps a flag, the other engines configure
\* the logging module.
SetDebug(mode, m) == IF mode = "lru" THEN [m EXCEPT !.debug = TRUE] ELSE m
ResetDebug(mode, m) == IF mode = "lru" THEN [m EXCEPT !.debug = FALSE] ELSE m
LogLevelAfter(mode, token, level) ==
    IF mode = "lru" THEN level
    ELSE IF token = "debug" THEN "DEBUG" ELSE "WARNING"

\* What LruMMU.access prints when self.debug is set (lines 27-28, 37-38, 42-43).
LruDebugOutput(m, page_number) ==
    IF ~m.debug THEN <<>>
    ELSE IF page_number \in OdKeys(m.loaded_pages)
    THEN <<[text |-> "Hit on page", value |-> page_number]>>
    ELSE (IF m.current_size = m.frames
          THEN <<[text |-> "Evict page", value |-> Head(m.loaded_pages)[1]]>>
          ELSE <<>>)
         \o <<[text |-> "Load page", value |-> page_number]>>

\* read_memory / write_memory of the selected engine; Optimal's take the
\* running index and the Future-Access Index as well.
MemoryCall(mode, m, op, page_number, current_index, fa, choice) ==
    LET is_write == (op = "write_memory")
    IN CASE mode = "rand" ->
              [mmu |-> RandAccess(m, page_number, is_write, choice), future_access |-> fa]
         [] mode = "lru" ->
              [mmu |-> LruAccess(m, page_number, is_write), future_access |-> fa]
         [] mode = "clock" ->
              [mmu |-> ClockAccess(m, page_number, is_write), future_access |-> fa]
         [] mode = "optimal" ->
              OptimalAccess(m, page_number, current_index, fa, is_write)

\* The record of one call: the arguments the driver passed.
CallRecord(mode, op, page_number, current_index, choice) ==
    [op |-> op, page_number |-> page_number,
     indexed |-> (mode = "optimal"),
     current_index |-> IF mode = "optimal" THEN current_index ELSE 0,
     choice |-> choice]

GetTotalDiskReads(m) == m.total_disk_read
GetTotalDiskWrites(m) == m.total_disk_write
GetTotalPageFaults(m) == m.total_page_fault

\* "{0:.4f}".format(page_faults / no_events), in ten-thousandths.
FormatRate(page_faults, events) ==
    LET scaled == page_faults * 10000
        q == scaled \div events
        twice == 2 * (scaled % events)
    IN IF twice > events \/ (twice = events /\ q % 2 = 1) THEN q + 1 ELSE q

Printed(text, value) == [text |-> text, value |-> value]
\* print(text, end=""): the text with nothing after it.
PrintedText(text) == [text |-> text]

SetMmu(mode, m) ==
    /\ randmmu' = IF mode = "rand" THEN m ELSE randmmu
    /\ lrummu' = IF mode = "lru" THEN m ELSE lrummu
    /\ clockmmu' = IF mode = "clock" THEN m ELSE clockmmu
    /\ optimalmmu' = IF mode = "optimal" THEN m ELSE optimalmmu

DriverInit ==
    /\ script \in Scripts
    /\ frames \in 0..MaxFrames
    /\ replacement_mode \in ModeTokens
    /\ debug_mode \in DebugTokens
    /\ trace_contents \in FilesUpTo(DriverMaxLen)
    /\ pc = "args"
    /\ log_level = "WARNING"
    /\ stdout = <<>> /\ exception = "" /\ calls = <<>>
    /\ trace_list = <<>>
    /\ future_access = EmptyDict
    /\ no_events = [mode \in AllModes |-> 0]
    /\ randmmu = NotConstructed /\ lrummu = NotConstructed
    /\ clockmmu = NotConstructed /\ optimalmmu = NotConstructed

\* Check input parameters (runoptimal.py lines 32-61, simulator.py 30-57).
CheckParameters ==
    /\ pc = "args"
    /\ IF frames < 1
       THEN /\ stdout' = Append(stdout, Printed("Frame number must be at least 1", frames))
            /\ pc' = "exit"
            /\ UNCHANGED <<randmmu, lrummu, clockmmu, optimalmmu, log_level>>
       ELSE IF replacement_mode \notin AcceptedModes(script)
       THEN /\ stdout' = Append(stdout, Printed("Invalid replacement mode", 0))
            /\ pc' = "exit"
            /\ UNCHANGED <<randmmu, lrummu, clockmmu, optimalmmu, log_level>>
       ELSE LET mmu == Construct(replacement_mode, frames)
            IN IF debug_mode = "debug"
               THEN /\ SetMmu(replacement_mode, SetDebug(replacement_mode, mmu))
                    /\ log_level' = LogLevelAfter(replacement_mode, debug_mode, log_level)
                    /\ pc' = "read"
                    /\ UNCHANGED stdout
               ELSE IF debug_mode = "quiet"
               THEN /\ SetMmu(replacement_mode, ResetDebug(replacement_mode, mmu))
                    /\ log_level' = LogLevelAfter(replacement_mode, debug_mode, log_level)
                    /\ pc' = "read"
                    /\ UNCHANGED stdout
               ELSE /\ SetMmu(replacement_mode, mmu)
                    /\ stdout' = Append(stdout, Printed("Invalid debug mode", 0))
                    /\ pc' = "exit"
                    /\ UNCHANGED log_level
    /\ UNCHANGED <<frames, trace_list, future_access, no_events, script,
                   replacement_mode, debug_mode, trace_contents, exception, calls>>

\* runoptimal.py lines 67-85: the whole trace is parsed, then indexed.
ReadTrace ==
    /\ pc = "read" /\ script = "runoptimal.py"
    /\ trace_list' = ParseTrace(trace_contents)
    /\ future_access' = IF replacement_mode = "optimal"
                        THEN BuildFutureAccess(trace_list') ELSE EmptyDict
    /\ pc' = "loop"
    /\ UNCHANGED <<frames, no_events, randmmu, lrummu, clockmmu, optimalmmu,
                   script, replacement_mode, debug_mode, trace_contents,
                   log_level, stdout, exception, calls>>

\* One iteration of the loop of runoptimal.py (lines 88-104).
ProcessLine ==
    /\ pc = "loop" /\ script = "runoptimal.py"
    /\ no_events[replacement_mode] < Len(trace_list)
    /\ LET i == no_events[replacement_mode]
           page_number == trace_list[i + 1][1]
           mode == trace_list[i + 1][2]
           op == IF mode = "R" THEN "read_memory" ELSE "write_memory"
           mmu == Mmu(replacement_mode)
       IN IF mode \notin {"R", "W"}
          THEN /\ stdout' = Append(stdout,
                       Printed("Badly formatted file. Error on line",
                               no_events[replacement_mode] + 1))
               /\ pc' = "exit"
               /\ UNCHANGED <<future_access, no_events, randmmu, lrummu, clockmmu,
                              optimalmmu, exception, calls>>
          ELSE \E choice \in (IF replacement_mode = "rand" THEN RandomChoices(mmu)
                              ELSE {0}) :
                 LET r == MemoryCall(replacement_mode, mmu, op, page_number, i,
                                     future_access, choice)
                 IN /\ SetMmu(replacement_mode, r.mmu)
                    /\ future_access' = r.future_access
                    /\ calls' = Append(calls, CallRecord(replacement_mode, op,
                                                         page_number, i, choice))
                    /\ stdout' = IF replacement_mode = "lru"
                                 THEN stdout \o LruDebugOutput(mmu, page_number)
                                 ELSE stdout
                    /\ IF r.mmu.error # ""
                       THEN /\ exception' = r.mmu.error
                            /\ pc' = "exit"
                            /\ UNCHANGED no_events
                       ELSE /\ no_events' = [no_events EXCEPT ![replacement_mode] = @ + 1]
                            /\ UNCHANGED <<exception, pc>>
    /\ UNCHANGED <<frames, trace_list, script, replacement_mode, debug_mode,
                   trace_contents, log_level>>

\* simulator.py lines 63-89: the loop over the file only decodes each line;
\* the block that calls the engine sits under "if replacement_mode ==
\* "optimal"", a mode the parameter check of this script has rejected.
SimReadTrace ==
    /\ pc = "read" /\ script = "simulator.py"
    /\ replacement_mode # "optimal"
    /\ pc' = "summary"
    /\ UNCHANGED <<frames, trace_list, future_access, no_events, randmmu, lrummu,
                   clockmmu, optimalmmu, script, replacement_mode, debug_mode,
                   trace_contents, log_level, stdout, exception, calls>>

\* The labels of the four counters a script prints before the rate.
SummaryLines(script_, frames_, events, mmu) ==
    IF script_ = "runoptimal.py"
    THEN <<Printed("total memory frames:", frames_),
           Printed("events in trace:", events),
           Printed("total disk reads:", GetTotalDiskReads(mmu)),
           Printed("total disk writes:", GetTotalDiskWrites(mmu))>>
    ELSE <<Printed("", frames_), Printed("", events),
           Printed("", GetTotalDiskReads(mmu)), Printed("", GetTotalDiskWrites(mmu))>>

RateLabel(script_) == IF script_ = "runoptimal.py" THEN "page fault rate:" ELSE ""

\* Print results (runoptimal.py lines 109-114, simulator.py 92-96).
PrintResults ==
    /\ \/ pc = "loop" /\ no_events[replacement_mode] = Len(trace_list)
       \/ pc = "summary"
    /\ LET mmu == Mmu(replacement_mode)
           events == no_events[replacement_mode]
           counters == SummaryLines(script, frames, events, mmu)
       IN IF events = 0
          THEN /\ stdout' = stdout \o counters \o
                       (IF RateLabel(script) = "" THEN <<>>
                        ELSE <<PrintedText(RateLabel(script))>>)
               /\ exception' = "ZeroDivisionError"
          ELSE /\ stdout' = stdout \o counters \o
                       <<Printed(RateLabel(script),
                                 FormatRate(GetTotalPageFaults(mmu), events))>>
               /\ UNCHANGED exception
    /\ pc' = "exit"
    /\ UNCHANGED <<frames, trace_list, future_access, no_events, randmmu, lrummu,
                   clockmmu, optimalmmu, script, replacement_mode, debug_mode,
                   trace_contents, log_level, calls>>

DriverNext == CheckParameters \/ ReadTrace \/ ProcessLine \/ SimReadTrace \/ PrintResults

DriverSpec == DriverInit /\ [][DriverNext]_vars

\* ------------------------------------------------- what the claims observe
\* The resident set of an engine and the dirty flag of a resident page.
ResidentOf(mode, m) ==
    IF mode = "lru" THEN OdKeys(m.loaded_pages) ELSE DOMAIN m.page_table
DirtyOf(mode, m, page_number) ==
    IF mode = "lru" THEN OdGet(m.loaded_pages, page_number)
    ELSE m.page_table[page_number].dirty
Resident(mode) == ResidentOf(mode, Mmu(mode))

\* Accesses an engine was asked to perform: the completed ones and the one
\* an exception interrupted.
Attempts(mode) == no_events[mode] + (IF Aborted(mode) THEN 1 ELSE 0)
Evictions(mode) == Mmu(mode).total_page_fault - Cardinality(Resident(mode))

InScenario(s) == frames = s.frames /\ trace_list = s.trace

\* C1: for every policy, every frame count and every trace, total_disk_read
\* equals total_page_fault in every state reached after any prefix of accesses.
C1_ReadsEqualFaults ==
    \A mode \in AllModes : Mmu(mode).total_disk_read = Mmu(mode).total_page_fault

\* Every engine has faulted at least twice.
C1_Witness ==
    \A mode \in AllModes : Mmu(mode).total_page_fault >= 2

\* C2: for every policy, every frame count and every trace, the number of
\* resident pages (keys of page_table, entries of loaded_pages / memory) is at
\* most F after every access.
C2_ResidentAtMostFrames ==
    /\ \A mode \in AllModes : Cardinality(Resident(mode)) <= frames
    /\ Len(randmmu.loaded_pages) <= frames
    /\ Len(lrummu.loaded_pages) <= frames
    /\ Len(clockmmu.loaded_pages) <= frames
    /\ Len(optimalmmu.memory) <= frames

\* Random and LRU are full and have both evicted a page; Clock and Optimal are
\* full and have faulted once more.
C2_Witness ==
    /\ \A mode \in AllModes : Cardinality(Resident(mode)) = frames
    /\ \A mode \in AllModes : Mmu(mode).total_page_fault > frames

\* C3: for every policy, one access increments total_disk_write, by exactly 1,
\* if and only if it evicts a page whose dirty flag was true when it was
\* evicted; an access that evicts a clean page or nothing leaves it unchanged.
C3_WriteIffDirtyEviction ==
    [][\A mode \in AllModes :
          LET before == Mmu(mode)
              after == Mmu(mode)'
              evicted == ResidentOf(mode, before) \ ResidentOf(mode, after)
          IN after.total_disk_write - before.total_disk_write =
                IF \E q \in evicted : DirtyOf(mode, before, q) THEN 1 ELSE 0]_vars

\* LRU and Random have each evicted a dirty page and a clean page.
C3_Witness ==
    /\ Evictions("lru") >= 2 /\ lrummu.total_disk_write = 1
    /\ Evictions("rand") >= 2 /\ randmmu.total_disk_write = 1

\* C4: for every policy, an access to a page that is resident (a hit), read or
\* write, leaves total_page_fault, total_disk_read and total_disk_write
\* unchanged.
C4_HitKeepsCounters ==
    [][\A mode \in AllModes :
          (Turn(mode) /\ CurPage(mode) \in Resident(mode)) =>
             /\ Mmu(mode)'.total_page_fault = Mmu(mode).total_page_fault
             /\ Mmu(mode)'.total_disk_read = Mmu(mode).total_disk_read
             /\ Mmu(mode)'.total_disk_write = Mmu(mode).total_disk_write]_vars

\* Every engine has completed at least two hits, on a trace holding a write.
C4_Witness ==
    /\ \A mode \in AllModes : no_events[mode] >= Mmu(mode).total_page_fault + 2
    /\ \E j \in 1..Len(trace_list) : j > 1 /\ trace_list[j][2] = "W"

\* C5: for any trace and frame count, the final total_page_fault of the Optimal
\* engine (driven with the full Future-Access Index) is at most the final
\* total_page_fault of LRU, of Clock and of Random under every sequence of
\* random choices: once the runs are over, the Optimal run has reached the end
\* of the trace with a count no larger than that of each run that did.
C5_OptimalFewestFaults ==
    (\A mode \in AllModes : ~Running(mode)) =>
        /\ Finished("optimal")
        /\ \A mode \in AllModes \ {"optimal"} :
              Finished(mode) =>
                 optimalmmu.total_page_fault <= Mmu(mode).total_page_fault

\* The sequence of resident pages of LRU, least recent first.
LruOrder == [j \in 1..Len(lrummu.loaded_pages) |-> lrummu.loaded_pages[j][1]]

\* C6: LRU with frames=2 on the all-read sequence [1,2,3,1]: accesses 1,2,3
\* fault, the third fault evicts page 1, the fourth access faults again and
\* evicts page 2; the final counters are 4 faults, 4 disk reads, 0 disk writes.
C6_ScenarioA_Lru ==
    InScenario(ScenarioA) =>
        /\ lrummu.total_page_fault = no_events["lru"]
        /\ lrummu.total_disk_read = no_events["lru"]
        /\ lrummu.total_disk_write = 0
        /\ no_events["lru"] = 2 => LruOrder = <<1, 2>>
        /\ no_events["lru"] = 3 => LruOrder = <<2, 3>>
        /\ no_events["lru"] = 4 => LruOrder = <<3, 1>>
        /\ ~Aborted("lru")

\* The LRU run of scenario A has reached the end of the trace.
C6_Witness ==
    InScenario(ScenarioA) /\ Finished("lru") /\ lrummu.total_page_fault = 4

\* C7: Optimal with frames=2 on the all-read sequence [1,2,3,1], driven with the
\* Future-Access Index of the whole trace: loading page 3 evicts page 2 (not
\* page 1), the last access to page 1 is a hit, and the final counters are
\* 3 page faults and 0 disk writes.
C7_ScenarioA_Optimal ==
    InScenario(ScenarioA) =>
        /\ Attempts("optimal") >= 3 =>
              /\ no_events["optimal"] >= 3
              /\ optimalmmu.memory = <<1, 3>>
              /\ optimalmmu.total_page_fault = 3
        /\ ~Running("optimal") =>
              /\ Finished("optimal")
              /\ optimalmmu.total_page_fault = 3
              /\ optimalmmu.total_disk_write = 0

\* C8: with frames=1 and the trace [5,5,6] with modes [R,W,R], under every
\* policy: access 1 faults and loads page 5 clean, access 2 hits and marks it
\* dirty, access 3 faults and evicts dirty page 5; the final counters are
\* 2 page faults, 2 disk reads, 1 disk write.
C8_ScenarioB_AllPolicies ==
    InScenario(ScenarioB) =>
        \A mode \in AllModes :
            /\ no_events[mode] = 1 /\ ~Aborted(mode) =>
                  /\ Resident(mode) = {5} /\ ~DirtyOf(mode, Mmu(mode), 5)
                  /\ Mmu(mode).total_page_fault = 1
            /\ no_events[mode] = 2 /\ ~Aborted(mode) =>
                  /\ Resident(mode) = {5} /\ DirtyOf(mode, Mmu(mode), 5)
                  /\ Mmu(mode).total_page_fault = 1
            /\ ~Running(mode) =>
                  /\ Finished(mode)
                  /\ Resident(mode) = {6}
                  /\ Mmu(mode).total_page_fault = 2
                  /\ Mmu(mode).total_disk_read = 2
                  /\ Mmu(mode).total_disk_write = 1

\* C9: Clock with frames=3: after loading pages 1,2,3 the hand is 0; a hit on
\* page 1 sets its reference bit without moving the hand; the fault on page 4
\* scans from slot 0, clears page 1's reference bit and advances, finds page
\* 2's reference bit false and evicts page 2, page 4 taking page 2's slot.
C9_ScenarioC_Clock ==
    InScenario(ScenarioC) =>
        /\ no_events["clock"] \in {3, 4} /\ ~Aborted("clock") =>
              /\ clockmmu.clock_hand = 0
              /\ clockmmu.page_table[1].use_bit
        /\ Attempts("clock") = 5 =>
              /\ ~Aborted("clock")
              /\ Resident("clock") = {1, 3, 4}
              /\ ~clockmmu.page_table[1].use_bit
              /\ clockmmu.loaded_pages[2].page_number = 4
              /\ clockmmu.clock_hand = 2

\* The page of the latest access an engine was asked to perform.
LastPage(mode) == trace_list[Attempts(mode)][1]

\* C10: with frame count 1, under every policy and every trace: an access is a
\* fault if and only if its page differs from the single resident page (or
\* nothing is resident); after every access the resident set is exactly the
\* page just accessed.
C10_OneFrame ==
    frames = 1 =>
        \A mode \in AllModes :
            Attempts(mode) >= 1 =>
                /\ Resident(mode) = {LastPage(mode)}
                /\ Mmu(mode).total_page_fault =
                      Cardinality({j \in 1..Attempts(mode) :
                                      j = 1 \/ trace_list[j][1] # trace_list[j - 1][1]})

\* ------------------------------------------------- what a script run shows
\* The parameter check of the running script lets the run through.
ParametersAccepted ==
    /\ frames >= 1
    /\ replacement_mode \in AcceptedModes(script)
    /\ debug_mode \in {"debug", "quiet"}

\* The 1-based number of the first line whose mode token is neither R nor W,
\* 0 when every line is well formed.
FirstBadLine(contents) ==
    LET bad == {j \in 1..Len(contents) : contents[j][2] \notin {"R", "W"}}
    IN IF bad = {} THEN 0 ELSE CHOOSE j \in bad : \A k \in bad : j <= k

SummaryTexts == {"total memory frames:", "events in trace:", "total disk reads:",
                 "total disk writes:", "page fault rate:", ""}
SummaryPrinted == \E j \in 1..Len(stdout) : stdout[j].text \in SummaryTexts
Reported(text, value) == \E j \in 1..Len(stdout) : stdout[j] = Printed(text, value)

\* C11: when the trace contains a line whose mode token is neither R nor W, a
\* run that got past the parameter check ends at the first such line: it
\* reports exactly that line's 1-based number, prints no summary counter, and
\* has made one engine access per earlier line and none for that line or later.
C11_BadModeAborts ==
    (pc = "exit" /\ ParametersAccepted /\ FirstBadLine(trace_contents) > 0) =>
        /\ exception = ""
        /\ Reported("Badly formatted file. Error on line", FirstBadLine(trace_contents))
        /\ ~SummaryPrinted
        /\ Len(calls) = FirstBadLine(trace_contents) - 1

\* Something other than a summary line has been printed: an error report.
ErrorReported == \E j \in 1..Len(stdout) : stdout[j].text \notin SummaryTexts

\* C12: when the trace has yielded zero events, the run does not divide by
\* zero: it ends without an arithmetic exception and with an error report
\* instead of a fault rate.
C12_ZeroEventsNoDivision ==
    (pc = "exit" /\ ParametersAccepted /\ no_events[replacement_mode] = 0) =>
        /\ exception # "ZeroDivisionError"
        /\ ErrorReported

\* The parameters the specification calls valid.
ValidParameters ==
    /\ frames >= 1
    /\ replacement_mode \in {"rand", "lru", "clock", "optimal"}
    /\ debug_mode \in {"debug", "quiet"}

\* The engine of the given mode, and no other, has been constructed.
Selected(mode) ==
    \A other \in AllModes : (Mmu(other) # NotConstructed) <=> (other = mode)

\* C13: with a frame count below 1, a replacement-mode token other than rand,
\* lru, clock, optimal, or a debug-mode token other than debug, quiet, the run
\* reports the error and ends before any trace line is processed (no engine
\* call, no summary); with valid parameters each of the four mode tokens is
\* accepted and selects the corresponding engine.
C13_ParameterCheck ==
    pc # "args" =>
        IF ValidParameters
        THEN Selected(replacement_mode)
        ELSE /\ pc = "exit" /\ exception = ""
             /\ ErrorReported /\ ~SummaryPrinted
             /\ calls = <<>>

\* The Future-Access Index a run builds for its mode (runoptimal.py 80-85).
FutureAccessFor(mode, trace) ==
    IF mode = "optimal" THEN BuildFutureAccess(trace) ELSE EmptyDict

\* The engine m (with index fa) after the first k recorded calls are made
\* again, with the same arguments and the same random choices.
RECURSIVE Replay(_, _, _, _)
Replay(mode, m, fa, k) ==
    IF k = 0 THEN [mmu |-> m, future_access |-> fa]
    ELSE LET before == Replay(mode, m, fa, k - 1)
             c == calls[k]
         IN IF before.mmu.error # "" THEN before
            ELSE MemoryCall(mode, before.mmu, c.op, c.page_number,
                            c.current_index, before.future_access, c.choice)

\* The run with the same parameters and trace, after reset_debug.
QuietRun ==
    Replay(replacement_mode,
           ResetDebug(replacement_mode, Construct(replacement_mode, frames)),
           FutureAccessFor(replacement_mode, trace_list), Len(calls))

WithoutDebug(m) == IF "debug" \in DOMAIN m THEN [m EXCEPT !.debug = FALSE] ELSE m

\* C14: after every access of a run with debug enabled, the engine (resident
\* pages, their order and dirty flags, the three counters, a failure if any)
\* is the one the same accesses, with the same random choices, produce after
\* reset_debug: the outcome of every access and every victim are the same.
C14_DebugIsObservationOnly ==
    (pc # "args" /\ ParametersAccepted /\ debug_mode = "debug") =>
        /\ WithoutDebug(Mmu(replacement_mode)) = QuietRun.mmu
        /\ future_access = QuietRun.future_access

\* A debug run of LRU has evicted a dirty page and printed the eviction.
C14_Witness ==
    /\ pc = "exit" /\ ParametersAccepted
    /\ debug_mode = "debug" /\ replacement_mode = "lru"
    /\ lrummu.debug /\ lrummu.total_disk_write = 1
    /\ \E j \in 1..Len(stdout) : stdout[j].text = "Evict page"

\* total_page_fault, total_disk_read, total_disk_write of an engine.
Counters(m) == <<GetTotalPageFaults(m), GetTotalDiskReads(m), GetTotalDiskWrites(m)>>

\* C16: the three counters of the engine of a run are 0 when it is
\* constructed; every later step leaves each of them unchanged or raises it by
\* exactly 1 (so none ever decreases); and the step that prints the summary,
\* which reads them through the get_total_* accessors, leaves the engine as
\* it was.
C16_Counters ==
    [][ParametersAccepted =>
          LET before == Mmu(replacement_mode)
              after == Mmu(replacement_mode)'
          IN /\ pc = "args" => Counters(after) = <<0, 0, 0>>
             /\ pc # "args" =>
                   \A j \in 1..3 : Counters(after)[j] - Counters(before)[j] \in {0, 1}
             /\ (pc # "args" /\ SummaryPrinted') => after = before]_vars

\* A run of LRU has faulted twice, written one dirty page back and printed
\* its summary.
C16_Witness ==
    /\ pc = "exit" /\ ParametersAccepted /\ replacement_mode = "lru"
    /\ SummaryPrinted /\ exception = ""
    /\ Counters(lrummu) = <<2, 2, 1>>

\* C17: for every policy, an access made when the resident set has size F
\* leaves it at size F; if that access is a fault, exactly one page leaves the
\* resident set and exactly one, the page accessed, enters it.
C17_FullStaysFull ==
    [][\A mode \in AllModes :
          (Turn(mode) /\ Cardinality(Resident(mode)) = frames) =>
             /\ Cardinality(Resident(mode)') = frames
             /\ CurPage(mode) \notin Resident(mode) =>
                   /\ Cardinality(Resident(mode) \ Resident(mode)') = 1
                   /\ Resident(mode)' \ Resident(mode) = {CurPage(mode)}]_vars

\* The engines that keep a page_table beside an ordering structure.
TableModes == {"rand", "clock", "optimal"}

\* The ordering structure of an engine as the sequence of pages it names:
\* loaded_pages of Random and Clock, memory of Optimal.
OrderOf(mode, m) ==
    CASE mode = "rand" -> m.loaded_pages
      [] mode = "clock" -> [j \in 1..Len(m.loaded_pages) |-> m.loaded_pages[j].page_number]
      [] mode = "optimal" -> m.memory

\* C18: for Random, Clock and Optimal, after every access the keys of
\* page_table are exactly the pages named in the ordering structure, none
\* named twice; a page loaded by a fault gets a fresh record whose dirty flag
\* is the mode of that access (clean after a read, whatever happened to the
\* page before it was evicted), and the eviction of a page whose record is
\* clean causes no disk write.
C18_OneRecordPerResidentPage ==
    /\ [](\A mode \in TableModes :
            LET order == OrderOf(mode, Mmu(mode))
            IN /\ DOMAIN Mmu(mode).page_table = ListElems(order)
               /\ Cardinality(ListElems(order)) = Len(order))
    /\ [][\A mode \in TableModes :
            Turn(mode) =>
               LET before == Mmu(mode)
                   after == Mmu(mode)'
                   p == CurPage(mode)
               IN /\ (p \notin DOMAIN before.page_table /\ p \in DOMAIN after.page_table)
                        => after.page_table[p].dirty = (CurMode(mode) = "W")
                  /\ \A q \in DOMAIN before.page_table \ DOMAIN after.page_table :
                        ~before.page_table[q].dirty
                           => after.total_disk_write = before.total_disk_write]_vars

\* Random with one frame on [1 W, 2 R, 1 R]: page 1 was loaded dirty, evicted
\* with a disk write, and reloaded by a read; it is resident and clean, and
\* the eviction of the clean page 2 wrote nothing.
C18_Witness ==
    /\ frames = 1
    /\ trace_list = <<TraceLine(1, "W"), TraceLine(2, "R"), TraceLine(1, "R")>>
    /\ no_events["rand"] = 3
    /\ randmmu.loaded_pages = <<1>>
    /\ ~randmmu.page_table[1].dirty
    /\ randmmu.total_disk_write = 1

\* C19: for every policy, a page brought in by an access has dirty = false
\* after a read and dirty = true after a write; a write to a resident page
\* leaves it resident and dirty; and a page that is dirty and still resident
\* after a step is still dirty (a read hit, another page's fault and the Clock
\* scan never clear the flag).
C19_DirtyFlag ==
    [][\A mode \in AllModes :
          LET before == Mmu(mode)
              after == Mmu(mode)'
              stays == ResidentOf(mode, before) \cap ResidentOf(mode, after)
          IN /\ \A q \in stays : DirtyOf(mode, before, q) => DirtyOf(mode, after, q)
             /\ Turn(mode) =>
                   LET p == CurPage(mode)
                       is_write == (CurMode(mode) = "W")
                   IN /\ (p \notin ResidentOf(mode, before) /\ p \in ResidentOf(mode, after))
                            => DirtyOf(mode, after, p) = is_write
                      /\ (p \in ResidentOf(mode, before) /\ is_write)
                            => p \in ResidentOf(mode, after) /\ DirtyOf(mode, after, p)]_vars

\* Every engine has loaded page 1 by a read, made it dirty by a write hit and
\* then read it again: it is still resident and dirty.
C19_Witness ==
    /\ frames = 1
    /\ trace_list = <<TraceLine(1, "R"), TraceLine(1, "W"), TraceLine(1, "R")>>
    /\ \A mode \in AllModes :
          /\ no_events[mode] = 3
          /\ Mmu(mode).total_page_fault = 1
          /\ DirtyOf(mode, Mmu(mode), 1)

\* The k-th recorded call is the access of line k: its page number and mode,
\* and, exactly when the engine is Optimal, the running index k - 1, which is
\* a position recorded for that page in the Future-Access Index of the trace.
CallMatchesLine(k) ==
    LET c == calls[k]
        line == trace_list[k]
    IN /\ c.page_number = line[1]
       /\ c.op = (IF line[2] = "R" THEN "read_memory" ELSE "write_memory")
       /\ c.indexed <=> (replacement_mode = "optimal")
       /\ c.indexed =>
             /\ c.current_index = k - 1
             /\ \E j \in 1..Len(BuildFutureAccess(trace_list)[line[1]]) :
                   BuildFutureAccess(trace_list)[line[1]][j] = c.current_index

\* C20: in a run of runoptimal.py on a trace of N well-formed lines, the
\* engine calls made so far are those of the first lines of the trace, in
\* order; and the run ends with N calls made, the event counter at N and the
\* summary printed.
C20_OneAccessPerLine ==
    (script = "runoptimal.py" /\ ParametersAccepted /\ FirstBadLine(trace_contents) = 0
        /\ pc \in {"loop", "exit"}) =>
        /\ Len(calls) <= Len(trace_list)
        /\ \A k \in 1..Len(calls) : CallMatchesLine(k)
        /\ pc = "exit" =>
              /\ Len(calls) = Len(trace_contents)
              /\ no_events[replacement_mode] = Len(trace_contents)
              /\ Reported("events in trace:", Len(trace_contents))

\* The next access of a run is a fault.
FaultNext(mode) == Turn(mode) /\ CurPage(mode) \notin Resident(mode)

\* C21: the victims of a Random engine are fixed by what it was constructed
\* with (frame count and seed) and by the accesses made so far: two engines
\* built alike and run on the same trace evict alike, so that in a state where
\* Random is about to evict, one victim only can come out of the selection.
C21_SeededVictims ==
    (FaultNext("rand") /\ RandNeedsEviction(randmmu)) =>
        Cardinality(RandomChoices(randmmu)) = 1

\* The 1-based number of the last line, among those a run has processed, that
\* accessed the page; 0 when none did.
LastAccess(mode, page_number) ==
    LET hits == {j \in 1..no_events[mode] : trace_list[j][1] = page_number}
    IN IF hits = {} THEN 0 ELSE CHOOSE j \in hits : \A k \in hits : k <= j

\* C22: the order of LRU's OrderedDict is the order of last access of the
\* resident pages, oldest first; a fault at full capacity evicts the resident
\* page whose last access (hit or load) is the oldest, and every access leaves
\* the accessed page at the most-recent end.
C22_LruOrderIsRecency ==
    /\ [](/\ \A j \in 1..Len(LruOrder) : LastAccess("lru", LruOrder[j]) > 0
          /\ \A j \in 1..Len(LruOrder) - 1 :
                LastAccess("lru", LruOrder[j]) < LastAccess("lru", LruOrder[j + 1]))
    /\ [][Turn("lru") =>
            /\ LruOrder'[Len(LruOrder')] = CurPage("lru")
            /\ (FaultNext("lru") /\ Len(LruOrder) = frames) =>
                  \E q \in Resident("lru") :
                     /\ Resident("lru") \ Resident("lru")' = {q}
                     /\ \A r \in Resident("lru") :
                           LastAccess("lru", q) <= LastAccess("lru", r)]_vars

\* LRU with three frames on [1,2,3,1,4]: the hit on page 1 made page 2 the
\* least recent, and the fault on page 4 evicted page 2.
C22_Witness ==
    /\ InScenario(ScenarioC) /\ no_events["lru"] = 5
    /\ LruOrder = <<3, 1, 4>>

\* The page named by slot j (0-based) of Clock's array, and its reference bit.
SlotPage(m, j) == m.loaded_pages[j + 1].page_number
SlotBit(m, j) == m.page_table[SlotPage(m, j)].use_bit

\* How many slots the second-chance scan passes over before the one it
\* replaces: the slots from the hand on whose bit is set; after a full turn
\* (all bits set, all cleared) the slot under the hand is the one.
ScanSkips(m) ==
    LET clear == {k \in 0..(m.frames - 1) : ~SlotBit(m, (m.clock_hand + k) % m.frames)}
    IN IF clear = {} THEN m.frames ELSE CHOOSE k \in clear : \A l \in clear : k <= l

\* C23: a Clock fault with all F slots occupied clears the bit of every slot
\* it passes from the hand on, evicts the page of the first slot found with
\* reference false (one disk write if it is dirty), installs the faulting page
\* in that slot with reference true and dirty = is_write, and leaves the hand
\* one position past that slot (mod F).
C23_SecondChance ==
    [][(FaultNext("clock") /\ Len(clockmmu.loaded_pages) = frames) =>
          LET m == clockmmu
              after == clockmmu'
              skips == ScanSkips(m)
              slot == (m.clock_hand + skips) % frames
              victim == SlotPage(m, slot)
              passed == {SlotPage(m, (m.clock_hand + k) % frames) : k \in 0..(skips - 1)}
          IN /\ after.error = ""
             /\ DOMAIN after.page_table = (DOMAIN m.page_table \ {victim}) \cup {CurPage("clock")}
             /\ after.page_table[CurPage("clock")] = Page(CurMode("clock") = "W", TRUE)
             /\ \A j \in 0..(frames - 1) :
                   SlotPage(after, j) = IF j = slot THEN CurPage("clock") ELSE SlotPage(m, j)
             /\ \A q \in DOMAIN m.page_table \ {victim} :
                   /\ after.page_table[q].use_bit =
                         (IF q \in passed THEN FALSE ELSE m.page_table[q].use_bit)
                   /\ after.page_table[q].dirty = m.page_table[q].dirty
             /\ after.clock_hand = (slot + 1) % frames
             /\ after.total_disk_write - m.total_disk_write =
                   (IF m.page_table[victim].dirty THEN 1 ELSE 0)]_vars

\* C24: the first F faults of a Clock run are pure insertions: each appends
\* the faulting page in the next slot (slots 0,1,...,F-1 in fault order),
\* evicts nothing, writes nothing to disk and changes no reference bit of a
\* resident page; when the array has just become full the hand is 0.
C24_FirstFaultsInsert ==
    /\ [](clockmmu.total_page_fault <= frames =>
             /\ Len(clockmmu.loaded_pages) = clockmmu.total_page_fault
             /\ clockmmu.total_disk_write = 0
             /\ clockmmu.total_page_fault = frames => clockmmu.clock_hand = 0)
    /\ [][(FaultNext("clock") /\ clockmmu.total_page_fault < frames) =>
            LET m == clockmmu
                after == clockmmu'
                n == Len(m.loaded_pages)
            IN /\ Len(after.loaded_pages) = n + 1
               /\ SlotPage(after, n) = CurPage("clock")
               /\ \A j \in 0..(n - 1) : after.loaded_pages[j + 1] = m.loaded_pages[j + 1]
               /\ \A q \in DOMAIN m.page_table :
                     q \in DOMAIN after.page_table /\ after.page_table[q] = m.page_table[q]]_vars

\* Clock with two frames has filled slot 0 with page 2, hit it, and filled
\* slot 1 with page 1: the array is full after two faults and the hand is 0.
C24_Witness ==
    /\ frames = 2 /\ no_events["clock"] = 3
    /\ clockmmu.total_page_fault = 2
    /\ Len(clockmmu.loaded_pages) = 2
    /\ SlotPage(clockmmu, 0) = 2 /\ SlotPage(clockmmu, 1) = 1
    /\ clockmmu.clock_hand = 0

\* C25: a Clock hit, read or write, leaves clock_hand, the slot array, the
\* counters and every other page's record unchanged; the hit page's reference
\* bit is true afterwards and its dirty flag is set by a write and kept by a
\* read.
C25_ClockHit ==
    [][(Turn("clock") /\ CurPage("clock") \in Resident("clock")) =>
          LET m == clockmmu
              after == clockmmu'
              p == CurPage("clock")
          IN /\ after.clock_hand = m.clock_hand
             /\ after.loaded_pages = m.loaded_pages
             /\ Counters(after) = Counters(m)
             /\ after.error = ""
             /\ DOMAIN after.page_table = DOMAIN m.page_table
             /\ \A q \in DOMAIN m.page_table \ {p} : after.page_table[q] = m.page_table[q]
             /\ after.page_table[p].use_bit
             /\ after.page_table[p].dirty =
                   (m.page_table[p].dirty \/ CurMode("clock") = "W")]_vars

\* Clock with two frames on [1 R, 2 R, 1 W]: the write hit on page 1 made it
\* dirty with the array full and the hand still at 0.
C25_Witness ==
    /\ frames = 2
    /\ trace_list = <<TraceLine(1, "R"), TraceLine(2, "R"), TraceLine(1, "W")>>
    /\ no_events["clock"] = 3
    /\ clockmmu.page_table[1].dirty /\ clockmmu.page_table[1].use_bit
    /\ clockmmu.clock_hand = 0

\* C26: the victim scan of a Clock fault with all slots occupied terminates:
\* it examines at most F+1 slots and ends by evicting a page.
C26_ScanTerminates ==
    [][(FaultNext("clock") /\ Len(clockmmu.loaded_pages) = frames) =>
          /\ ClockScanLength(clockmmu) <= frames + 1
          /\ clockmmu'.error = ""
          /\ Cardinality(Resident("clock") \ Resident("clock")') = 1]_vars

\* C27: in Clock a page's reference bit is true right after a hit on it and
\* right after it is loaded; a bit goes from true to false only in a step that
\* is a fault with all slots occupied (the second-chance scan), never in a hit
\* or in a fault with free capacity.
C27_ReferenceBit ==
    [][LET m == clockmmu
           after == clockmmu'
       IN /\ Turn("clock") =>
                (CurPage("clock") \in DOMAIN after.page_table
                    => after.page_table[CurPage("clock")].use_bit)
          /\ \A q \in DOMAIN m.page_table \cap DOMAIN after.page_table :
                (m.page_table[q].use_bit /\ ~after.page_table[q].use_bit)
                   => (FaultNext("clock") /\ Len(m.loaded_pages) = frames)]_vars

\* Clock with two frames on [1 R, 2 W, 1 R]: pages 1 and 2 were loaded and
\* page 1 was hit; both reference bits are true.
C27_Witness ==
    /\ frames = 2
    /\ trace_list = <<TraceLine(1, "R"), TraceLine(2, "W"), TraceLine(1, "R")>>
    /\ no_events["clock"] = 3
    /\ \A q \in {1, 2} : clockmmu.page_table[q].use_bit

\* C28: in every reachable state Clock's slot array has length F, every slot
\* holds None or the page number of a resident page (a key of page_table), and
\* clock_hand is in 0..F-1.
C28_ClockArrayShape ==
    /\ Len(clockmmu.loaded_pages) = frames
    /\ \A j \in 1..Len(clockmmu.loaded_pages) :
          \/ clockmmu.loaded_pages[j] = SlotNone
          \/ IsKey(clockmmu.loaded_pages[j], clockmmu.page_table)
    /\ clockmmu.clock_hand \in 0..(frames - 1)

\* The next reference of a page strictly after the 0-based trace index i:
\* its position, or infinity when the page is not referenced again.
NextUseAfter(page_number, i) ==
    LET later == {j \in (i + 1)..(Len(trace_list) - 1) : trace_list[j + 1][1] = page_number}
    IN IF later = {} THEN Infinite
       ELSE Position(CHOOSE j \in later : \A k \in later : j <= k)

\* The page of the memory list whose next reference after i is farthest, the
\* earliest in the list among those tied.
FarthestPage(memory, i) ==
    LET k == CHOOSE n \in 1..Len(memory) :
                /\ \A l \in 1..(n - 1) :
                      Greater(NextUseAfter(memory[n], i), NextUseAfter(memory[l], i))
                /\ \A l \in (n + 1)..Len(memory) :
                      ~Greater(NextUseAfter(memory[l], i), NextUseAfter(memory[n], i))
    IN memory[k]

\* C29: an Optimal fault at full capacity at trace index i evicts the resident
\* page whose next reference strictly after i is farthest in the trace (a page
\* never referenced again being farther than any that is), the earliest in
\* the memory list among pages tied for farthest.
C29_EvictsFarthest ==
    [][(FaultNext("optimal") /\ Len(optimalmmu.memory) = frames) =>
          /\ optimalmmu'.error = ""
          /\ Resident("optimal") \ Resident("optimal")' =
                {FarthestPage(optimalmmu.memory, no_events["optimal"])}]_vars

\* The positions of a queue that lie strictly after the trace index i.
StrictlyAfter(q, i) == SelectSeq(q, LAMBDA n : n > i)

\* C30: after an Optimal eviction decision at trace index i, the queue of
\* every page that was resident holds exactly its positions greater than i, in
\* ascending order (none at or before i is left, none after i is lost), and
\* the queue of every other page is as it was.
C30_QueuesCleaned ==
    [][(FaultNext("optimal") /\ Len(optimalmmu.memory) = frames) =>
          LET i == no_events["optimal"]
          IN \A p \in DOMAIN future_access :
                future_access'[p] =
                   IF p \in ListElems(optimalmmu.memory)
                   THEN StrictlyAfter(BuildFutureAccess(trace_list)[p], i)
                   ELSE future_access[p]]_vars

\* The 0-based positions of a page in a trace, in ascending order.
PositionsOf(trace, page_number) ==
    LET at == {j - 1 : j \in {k \in 1..Len(trace) : trace[k][1] = page_number}}
    IN CHOOSE q \in [1..Cardinality(at) -> at] :
          \A a, b \in 1..Cardinality(at) : a < b => q[a] < q[b]

\* A run of runoptimal.py in Optimal mode that has read its trace.
OptimalRun ==
    /\ script = "runoptimal.py" /\ ParametersAccepted
    /\ replacement_mode = "optimal" /\ pc \in {"loop", "exit"}

\* C31: in Optimal mode the Future-Access Index is complete before the first
\* engine access: when no access has been made yet it maps every page of the
\* trace to the ascending sequence of all 0-based positions of that page; and
\* no later step of the run adds a page or a position to it.
C31_IndexBuiltFirst ==
    /\ []((OptimalRun /\ calls = <<>>) =>
             /\ DOMAIN future_access = {trace_list[j][1] : j \in 1..Len(trace_list)}
             /\ \A p \in DOMAIN future_access :
                   future_access[p] = PositionsOf(trace_list, p))
    /\ [][OptimalRun =>
            /\ DOMAIN future_access' = DOMAIN future_access
            /\ \A p \in DOMAIN future_access :
                  ListElems(future_access'[p]) \subseteq ListElems(future_access[p])]_vars

\* An Optimal run on two lines of page 1 has made both accesses; the index
\* built before the first one named both positions of the page.
C31_Witness ==
    /\ OptimalRun /\ pc = "exit" /\ exception = ""
    /\ Len(calls) = 2 /\ calls[1].current_index = 0 /\ calls[2].current_index = 1
    /\ future_access[1] = <<0, 1>>

\* C32: a Random fault with fewer than F resident pages inserts the new page
\* and evicts nothing; a fault at full capacity evicts exactly one page that
\* was resident before the access and inserts the new one; and in a state
\* where such a fault is next, every resident page is a possible victim: for
\* each of them the selection has an outcome that evicts it.
C32_RandomEviction ==
    /\ []((FaultNext("rand") /\ Cardinality(Resident("rand")) = frames) =>
             \A q \in Resident("rand") :
                \E evict_page_num \in RandomChoices(randmmu) :
                   ResidentOf("rand", RandAccess(randmmu, CurPage("rand"),
                                                 CurMode("rand") = "W", evict_page_num))
                      = (Resident("rand") \ {q}) \cup {CurPage("rand")})
    /\ [][FaultNext("rand") =>
            /\ randmmu'.error = ""
            /\ IF Cardinality(Resident("rand")) < frames
               THEN Resident("rand")' = Resident("rand") \cup {CurPage("rand")}
               ELSE \E q \in Resident("rand") :
                       Resident("rand")' = (Resident("rand") \ {q}) \cup {CurPage("rand")}]_vars

\* Random with two frames on pages [1,2,3]: the fault on page 3 evicted page
\* 2, the page loaded last, and kept page 1.
C32_Witness ==
    /\ frames = 2 /\ no_events["rand"] = 3
    /\ \A j \in 1..3 : trace_list[j][1] = j
    /\ randmmu.loaded_pages = <<1, 3>>
    /\ randmmu.total_page_fault = 3

\* C33: a run of simulator.py in mode rand, lru or clock on a trace of N
\* well-formed lines forwards each line, in order, to read_memory or
\* write_memory of the selected engine and counts one event per line: when the
\* summary is printed the engine has been called N times, once for each line
\* with that line's page and mode, and the event counter is N.
C33_SimulatorForwards ==
    (script = "simulator.py" /\ ParametersAccepted
        /\ FirstBadLine(trace_contents) = 0 /\ SummaryPrinted) =>
        /\ Len(calls) = Len(trace_contents)
        /\ \A k \in 1..Len(calls) :
              /\ k <= Len(trace_contents)
              /\ calls[k].page_number = ParseTrace(trace_contents)[k][1]
              /\ calls[k].op = (IF trace_contents[k][2] = "R" THEN "read_memory"
                                ELSE "write_memory")
        /\ no_events[replacement_mode] = Len(trace_contents)

\* C34: for every frame count F >= 1, every replacement mode and every
\* non-empty trace of well-formed lines, no engine access of a driver run
\* fails with an error (in particular not the first eviction at full
\* capacity), and the run ends only with every line processed and the summary
\* printed.
C34_RunCompletes ==
    (script = "runoptimal.py" /\ ParametersAccepted
        /\ Len(trace_contents) >= 1 /\ FirstBadLine(trace_contents) = 0) =>
        /\ Mmu(replacement_mode).error = ""
        /\ exception = ""
        /\ pc = "exit" =>
              /\ no_events[replacement_mode] = Len(trace_contents)
              /\ SummaryPrinted

\* C35: for every policy, immediately after any access (hit or fault) the
\* accessed page is resident: every counted page fault ends with the faulting
\* page loaded into a frame.
C35_AccessedPageResident ==
    \A mode \in AllModes :
        Attempts(mode) >= 1 => LastPage(mode) \in Resident(mode)

\* C36: for every policy, total_page_fault is the number of evictions made so
\* far plus the size of the resident set: it is 0 with nothing resident at the
\* start, and every step raises it by the number of pages the step evicted
\* plus the growth of the resident set.  Consequently total_disk_write is at
\* most total_page_fault minus the size of the resident set, and is 0 as long
\* as the resident set has not reached size F.
C36_FaultsAreEvictionsPlusResident ==
    /\ [](\A mode \in AllModes :
            /\ Attempts(mode) = 0 =>
                  Mmu(mode).total_page_fault = 0 /\ Resident(mode) = {}
            /\ Mmu(mode).total_disk_write
                  <= Mmu(mode).total_page_fault - Cardinality(Resident(mode))
            /\ Cardinality(Resident(mode)) < frames => Mmu(mode).total_disk_write = 0)
    /\ [][\A mode \in AllModes :
            Mmu(mode)'.total_page_fault - Mmu(mode).total_page_fault =
                Cardinality(Resident(mode) \ Resident(mode)')
                   + Cardinality(Resident(mode)') - Cardinality(Resident(mode))]_vars

\* The pages of the first n lines of the trace.
PagesOfPrefix(n) == {trace_list[j][1] : j \in 1..n}

\* C37: for every policy and every trace, when F is at least the number of
\* distinct pages of the trace no page is ever evicted: no access fails, the
\* resident set is at every moment the set of pages accessed so far,
\* total_page_fault is their number (the number of distinct pages of the trace
\* when the run is over) and total_disk_write is 0.
C37_EveryPageFits ==
    Cardinality(PagesOfPrefix(Len(trace_list))) <= frames =>
        \A mode \in AllModes :
            /\ ~Aborted(mode)
            /\ Resident(mode) = PagesOfPrefix(no_events[mode])
            /\ Mmu(mode).total_page_fault = Cardinality(PagesOfPrefix(no_events[mode]))
            /\ Mmu(mode).total_disk_write = 0
            /\ Finished(mode) =>
                  Mmu(mode).total_page_fault = Cardinality(PagesOfPrefix(Len(trace_list)))

\* The four runs with two frames on [1 W, 2 W, 1 R] are over: two faults
\* each, both pages dirty and resident, nothing written.
C37_Witness ==
    /\ frames = 2
    /\ trace_list = <<TraceLine(1, "W"), TraceLine(2, "W"), TraceLine(1, "R")>>
    /\ \A mode \in AllModes :
          /\ Finished(mode)
          /\ Mmu(mode).total_page_fault = 2
          /\ Mmu(mode).total_disk_write = 0

\* An LRU engine constructed with the given frame count after the first n
\* lines of the trace.
RECURSIVE LruRun(_, _)
LruRun(frames_, n) ==
    IF n = 0 THEN LruInit(frames_)
    ELSE LruAccess(LruRun(frames_, n - 1), trace_list[n][1], trace_list[n][2] = "W")

\* C38: LRU inclusion (stack) property: after each access of a trace the
\* resident set of an LRU engine with F frames is a subset of the resident
\* set of an LRU engine with F+1 frames run on the same trace, and its
\* total_page_fault is at least that of the larger engine; this for the
\* engine of the run and for every smaller frame count.
C38_LruInclusion ==
    LET n == no_events["lru"]
    IN /\ lrummu = LruRun(frames, n)
       /\ \A f \in 1..frames :
             /\ OdKeys(LruRun(f, n).loaded_pages) \subseteq OdKeys(LruRun(f + 1, n).loaded_pages)
             /\ LruRun(f, n).total_page_fault >= LruRun(f + 1, n).total_page_fault

\* LRU with three frames on [1,2,3,1,4] has finished with pages 3, 1, 4 and
\* four faults; with two frames the same trace leaves pages 1, 4 after five
\* faults, and with four frames nothing is evicted.
C38_Witness ==
    /\ InScenario(ScenarioC) /\ Finished("lru")
    /\ Resident("lru") = {1, 3, 4} /\ lrummu.total_page_fault = 4
    /\ OdKeys(LruRun(2, 5).loaded_pages) = {1, 4} /\ LruRun(2, 5).total_page_fault = 5
    /\ OdKeys(LruRun(4, 5).loaded_pages) = {1, 2, 3, 4}

\* C39: in every reachable state of LRU, current_size is the number of
\* entries of loaded_pages and lies in 0..frames, so that the capacity test
\* current_size == frames is true exactly when loaded_pages holds F pages.
C39_LruCurrentSize ==
    /\ lrummu.current_size = Len(lrummu.loaded_pages)
    /\ lrummu.current_size = Cardinality(OdKeys(lrummu.loaded_pages))
    /\ lrummu.current_size \in 0..lrummu.frames
    /\ (lrummu.current_size = lrummu.frames) <=> (Len(lrummu.loaded_pages) = frames)

\* LRU with two frames has evicted a page and loaded another: three faults,
\* two entries, current_size 2.
C39_Witness ==
    /\ frames = 2 /\ lrummu.total_page_fault = 3
    /\ Len(lrummu.loaded_pages) = 2 /\ lrummu.current_size = 2

====
